---- MODULE Spec2Model ----
(***************************************************************************)
(* generate_architecture_diagram.py as a state machine.                    *)
(*                                                                         *)
(* The script is a straight-line program: a driver block (__main__) that   *)
(* prints status lines and calls two build functions, each of which opens  *)
(* a Diagram context, declares nodes inside nested Cluster contexts,       *)
(* connects nodes with >>, and hands the graph to the renderer when the    *)
(* Diagram context closes.  The program text is kept as data (one tuple    *)
(* per statement, in source order) and the actions below execute it one    *)
(* statement at a time.                                                    *)
(***************************************************************************)
EXTENDS Integers, Sequences, FiniteSets

VARIABLES
    driver,        \* the top-level statements being run (the __main__ block, or a caller's calls)
    pc,            \* index of the next driver statement
    fn,            \* name of the build function being executed, "" at top level
    fpc,           \* index of the next statement of fn
    env,           \* local variables of fn: variable name -> node object id
    ctx,           \* stack of open Diagram contexts (the graph under construction)
    clusterStack,  \* ids of the open Cluster contexts, innermost last
    closed,        \* ids of the Cluster contexts that have been closed
    nextId,        \* number of objects (nodes and clusters) created so far
    handoffs,      \* log of graph descriptions handed to the renderer
    files,         \* output file name -> image written (<<>> when absent)
    stdout,        \* lines printed so far
    status,        \* "running", "done" (exit 0) or "failed" (uncaught exception)
    error          \* the uncaught exception, "" when none

vars == <<driver, pc, fn, fpc, env, ctx, clusterStack, closed, nextId,
          handoffs, files, stdout, status, error>>

\* Largest number of build calls a caller other than __main__ makes.
MaxCalls == 3

----------------------------------------------------------------------------
(* Statements *)

Diagram(name, filename, direction) == <<"diagram", name, filename, direction>>
Render == <<"render", "", "", "">>
Cluster(label) == <<"cluster", label, "", "">>
End == <<"end", "", "", "">>
Node(var, category, label) == <<"node", var, category, label>>
Edge(src, dst) == <<"edge", src, dst, "">>
PrintLine(line) == <<"print", line, "", "">>
Call(f) == <<"call", f, "", "">>

----------------------------------------------------------------------------
(* create_gcp_architecture_diagram *)

ComprehensiveFilename == "gcp_architecture_diagram"

ComprehensiveHeader ==
    << Diagram("Terraform GCP Multi-Region Infrastructure", ComprehensiveFilename, "TB") >>

ExternalNodes ==
    << Node("users", "Users", "Users"),
       Node("internet", "Internet", "Internet") >>

GlobalResources ==
    << Cluster("Global Resources"),
         Node("dns", "DNS", "Cloud DNS"),
         Node("lb_global", "LoadBalancing", "Global Load Balancer"),
         Node("iam", "Iam", "IAM & Service Accounts"),
         Node("kms", "KMS", "Cloud KMS"),
         Node("monitoring", "BigQuery", "Cloud Monitoring"),
         Node("registry", "ContainerRegistry", "Artifact Registry"),
       End >>

PrimaryRegion ==
    << Cluster("Primary Region (us-central1)"),
         Cluster("VPC Network"),
           Node("vpc_primary", "VPC", "VPC"),
           Cluster("Subnets"),
             Node("web_subnet", "VPC", "Web Subnet"),
             Node("app_subnet", "VPC", "App Subnet"),
             Node("db_subnet", "VPC", "DB Subnet"),
             Node("gke_subnet", "VPC", "GKE Subnet"),
           End,
           Node("firewall", "FirewallRules", "Firewall Rules"),
           Cluster("Compute Layer"),
             Node("gke_primary", "GKE", "GKE Cluster"),
             Node("cloud_run_primary", "Run", "Cloud Run"),
             Node("compute_primary", "ComputeEngine", "Compute Engine"),
           End,
           Cluster("Database Layer"),
             Node("sql_primary", "SQL", "Cloud SQL\n(PostgreSQL)"),
             Node("redis_primary", "Memorystore", "Redis Cache"),
           End,
           Cluster("Storage Layer"),
             Node("storage_primary", "GCS", "Cloud Storage"),
             Node("filestore_primary", "Filestore", "Filestore"),
           End,
         End,
       End >>

SecondaryRegion ==
    << Cluster("Secondary Region (us-east1)"),
         Cluster("VPC Network"),
           Node("vpc_secondary", "VPC", "VPC"),
           Cluster("Subnets"),
             Node("web_subnet_2", "VPC", "Web Subnet"),
             Node("app_subnet_2", "VPC", "App Subnet"),
             Node("db_subnet_2", "VPC", "DB Subnet"),
             Node("gke_subnet_2", "VPC", "GKE Subnet"),
           End,
           Node("firewall_2", "FirewallRules", "Firewall Rules"),
           Cluster("Compute Layer"),
             Node("gke_secondary", "GKE", "GKE Cluster"),
             Node("cloud_run_secondary", "Run", "Cloud Run"),
             Node("compute_secondary", "ComputeEngine", "Compute Engine"),
           End,
           Cluster("Database Layer"),
             Node("sql_secondary", "SQL", "Cloud SQL\n(PostgreSQL)"),
             Node("redis_secondary", "Memorystore", "Redis Cache"),
           End,
           Cluster("Storage Layer"),
             Node("storage_secondary", "GCS", "Cloud Storage"),
             Node("filestore_secondary", "Filestore", "Filestore"),
           End,
         End,
       End >>

\* CrossRegionConnectivity with the peering node bound to a name already taken.
CrossRegionConnectivityReused ==
    << Cluster("Cross-Region Connectivity"),
         Node("vpc_primary", "VPC", "VPC Peering"),
         Node("vpn_tunnel", "VPC", "VPN Tunnel"),
       End >>

CrossRegionConnectivity ==
    << Cluster("Cross-Region Connectivity"),
         Node("vpc_peering", "VPC", "VPC Peering"),
         Node("vpn_tunnel", "VPC", "VPN Tunnel"),
       End >>

SecurityAndCompliance ==
    << Cluster("Security & Compliance"),
         Node("vpc_sc", "VPC", "VPC Service Controls"),
         Node("binary_auth", "Iam", "Binary Authorization"),
         Node("workload_identity", "Iam", "Workload Identity"),
       End >>

\* DataFlowConnections with the load balancer under the name it has in the
\* simplified build.
DataFlowConnectionsCopied ==
    << Edge("users", "internet"),
       Edge("internet", "dns"),
       Edge("dns", "lb"),
       Edge("lb", "gke_primary"),
       Edge("lb", "gke_secondary"),
       Edge("lb_global", "cloud_run_primary"),
       Edge("lb_global", "cloud_run_secondary") >>

DataFlowConnections ==
    << Edge("users", "internet"),
       Edge("internet", "dns"),
       Edge("dns", "lb_global"),
       Edge("lb_global", "gke_primary"),
       Edge("lb_global", "gke_secondary"),
       Edge("lb_global", "cloud_run_primary"),
       Edge("lb_global", "cloud_run_secondary") >>

PrimaryRegionConnections ==
    << Edge("gke_primary", "sql_primary"),
       Edge("gke_primary", "redis_primary"),
       Edge("gke_primary", "storage_primary"),
       Edge("cloud_run_primary", "sql_primary"),
       Edge("cloud_run_primary", "redis_primary"),
       Edge("compute_primary", "sql_primary"),
       Edge("compute_primary", "storage_primary") >>

\* SecondaryRegionConnections with the last edge left pointing at the primary
\* region's bucket.
SecondaryRegionConnectionsCrossed ==
    << Edge("gke_secondary", "sql_secondary"),
       Edge("gke_secondary", "redis_secondary"),
       Edge("gke_secondary", "storage_secondary"),
       Edge("cloud_run_secondary", "sql_secondary"),
       Edge("cloud_run_secondary", "redis_secondary"),
       Edge("compute_secondary", "sql_secondary"),
       Edge("compute_secondary", "storage_primary") >>

SecondaryRegionConnections ==
    << Edge("gke_secondary", "sql_secondary"),
       Edge("gke_secondary", "redis_secondary"),
       Edge("gke_secondary", "storage_secondary"),
       Edge("cloud_run_secondary", "sql_secondary"),
       Edge("cloud_run_secondary", "redis_secondary"),
       Edge("compute_secondary", "sql_secondary"),
       Edge("compute_secondary", "storage_secondary") >>

\* CrossRegionConnections with replication drawn in both directions.
CrossRegionConnectionsBothWays ==
    << Edge("vpc_primary", "vpc_peering"),
       Edge("vpc_secondary", "vpc_peering"),
       Edge("vpc_primary", "vpn_tunnel"),
       Edge("vpc_secondary", "vpn_tunnel"),
       Edge("sql_primary", "sql_secondary"),
       Edge("sql_secondary", "sql_primary") >>

CrossRegionConnections ==
    << Edge("vpc_primary", "vpc_peering"),
       Edge("vpc_secondary", "vpc_peering"),
       Edge("vpc_primary", "vpn_tunnel"),
       Edge("vpc_secondary", "vpn_tunnel"),
       Edge("sql_primary", "sql_secondary") >>

SecurityConnections ==
    << Edge("iam", "gke_primary"),
       Edge("iam", "gke_secondary"),
       Edge("iam", "cloud_run_primary"),
       Edge("iam", "cloud_run_secondary"),
       Edge("kms", "sql_primary"),
       Edge("kms", "sql_secondary"),
       Edge("kms", "storage_primary"),
       Edge("kms", "storage_secondary") >>

MonitoringAndRegistryConnections ==
    << Edge("monitoring", "gke_primary"),
       Edge("monitoring", "gke_secondary"),
       Edge("monitoring", "sql_primary"),
       Edge("monitoring", "sql_secondary"),
       Edge("registry", "gke_primary"),
       Edge("registry", "gke_secondary"),
       Edge("registry", "cloud_run_primary"),
       Edge("registry", "cloud_run_secondary") >>

SecurityControls ==
    << Edge("vpc_sc", "vpc_primary"),
       Edge("vpc_sc", "vpc_secondary"),
       Edge("binary_auth", "gke_primary"),
       Edge("binary_auth", "gke_secondary"),
       Edge("workload_identity", "gke_primary"),
       Edge("workload_identity", "gke_secondary") >>

create_gcp_architecture_diagram ==
    ComprehensiveHeader
    \o ExternalNodes \o GlobalResources \o PrimaryRegion \o SecondaryRegion
    \o CrossRegionConnectivity \o SecurityAndCompliance
    \o DataFlowConnections \o PrimaryRegionConnections \o SecondaryRegionConnections
    \o CrossRegionConnections \o SecurityConnections
    \o MonitoringAndRegistryConnections \o SecurityControls
    \o << Render >>

----------------------------------------------------------------------------
(* create_simplified_architecture_diagram *)

\* SimplifiedFilename left at the comprehensive build's name.
SimplifiedFilenameCopied == "gcp_architecture_diagram"

SimplifiedFilename == "gcp_simplified_diagram"

SimplifiedHeader ==
    << Diagram("GCP Infrastructure Overview", SimplifiedFilename, "TB") >>

SimplifiedNodes ==
    << Node("users", "Users", "Users"),
       Node("internet", "Internet", "Internet"),
       Cluster("Global Services"),
         Node("dns", "DNS", "Cloud DNS"),
         Node("lb", "LoadBalancing", "Global Load Balancer"),
         Node("iam", "Iam", "IAM & Security"),
         Node("monitoring", "BigQuery", "Monitoring & Logging"),
       End,
       Cluster("Multi-Region Deployment"),
         Cluster("Primary Region\n(us-central1)"),
           Node("gke_primary", "GKE", "GKE Cluster"),
           Node("sql_primary", "SQL", "Cloud SQL"),
           Node("storage_primary", "GCS", "Cloud Storage"),
         End,
         Cluster("Secondary Region\n(us-east1)"),
           Node("gke_secondary", "GKE", "GKE Cluster"),
           Node("sql_secondary", "SQL", "Cloud SQL"),
           Node("storage_secondary", "GCS", "Cloud Storage"),
         End,
       End,
       Node("vpc_peering", "VPC", "VPC Peering") >>

SimplifiedConnections ==
    << Edge("users", "internet"),
       Edge("internet", "dns"),
       Edge("dns", "lb"),
       Edge("lb", "gke_primary"),
       Edge("lb", "gke_secondary"),
       Edge("gke_primary", "sql_primary"),
       Edge("gke_primary", "storage_primary"),
       Edge("gke_secondary", "sql_secondary"),
       Edge("gke_secondary", "storage_secondary"),
       Edge("sql_primary", "sql_secondary"),
       Edge("gke_primary", "vpc_peering"),
       Edge("gke_secondary", "vpc_peering"),
       Edge("iam", "gke_primary"),
       Edge("iam", "gke_secondary"),
       Edge("monitoring", "gke_primary"),
       Edge("monitoring", "gke_secondary") >>

create_simplified_architecture_diagram ==
    SimplifiedHeader \o SimplifiedNodes \o SimplifiedConnections \o << Render >>

----------------------------------------------------------------------------
(* __main__ *)

\* The status lines are kept without their leading emoji and blank line.

Comprehensive == "create_gcp_architecture_diagram"
Simplified == "create_simplified_architecture_diagram"
Functions == {Comprehensive, Simplified}

Body(f) ==
    IF f = Comprehensive THEN create_gcp_architecture_diagram
    ELSE create_simplified_architecture_diagram

main ==
    << PrintLine("Generating GCP architecture diagrams..."),
       PrintLine("Creating comprehensive architecture diagram..."),
       Call(Comprehensive),
       PrintLine("Comprehensive diagram saved as 'gcp_architecture_diagram.png'"),
       PrintLine("Creating simplified architecture diagram..."),
       Call(Simplified),
       PrintLine("Simplified diagram saved as 'gcp_simplified_diagram.png'"),
       PrintLine("Architecture diagrams generated successfully!"),
       PrintLine("Files created:"),
       PrintLine("   - gcp_architecture_diagram.png (comprehensive view)"),
       PrintLine("   - gcp_simplified_diagram.png (high-level overview)"),
       PrintLine("You can now include these diagrams in your documentation!") >>

----------------------------------------------------------------------------
(* Objects and contexts *)

\* Cluster id of the diagram itself: a node declared outside every Cluster.
Root == 0

OutputFiles == {ComprehensiveFilename, SimplifiedFilename}

\* A function starts with no local variables.
NoLocals == [v \in {} |-> 0]

\* var = <constructor>(...) binds the local variable to the new object.
Bind(e, v, id) == [x \in (DOMAIN e) \cup {v} |-> IF x = v THEN id ELSE e[x]]

\* NewDiagram continuing from the graph handed off last instead of an empty one.
ReusedDiagram(name, filename, direction) ==
    IF handoffs = <<>>
    THEN [name |-> name, filename |-> filename, direction |-> direction,
          nodes |-> <<>>, clusters |-> <<>>, edges |-> <<>>]
    ELSE [handoffs[Len(handoffs)].graph EXCEPT
             !.name = name, !.filename = filename, !.direction = direction]

\* with Diagram(name, filename=..., direction=...): an empty graph.
NewDiagram(name, filename, direction) ==
    [name |-> name, filename |-> filename, direction |-> direction,
     nodes |-> <<>>, clusters |-> <<>>, edges |-> <<>>]

\* Every constructor call creates a new object.
NewId(n) == n + 1

\* CurrentCluster taking the outermost open context.
OutermostCluster(stack) == IF stack = <<>> THEN Root ELSE stack[1]

\* The innermost open Cluster context, the diagram when none is open.
CurrentCluster(stack) == IF stack = <<>> THEN Root ELSE stack[Len(stack)]

\* LeaveCluster leaving the context open.
StayInCluster(stack) == stack

\* Leaving a with Cluster(...) block closes the innermost Cluster context.
LeaveCluster(stack) == SubSeq(stack, 1, Len(stack) - 1)

\* LeaveDiagram leaving the context open.
KeepDiagram(c) == c

\* Leaving the with Diagram(...) block releases the Diagram context.
LeaveDiagram(c) == SubSeq(c, 1, Len(c) - 1)

\* src >> dst adds one directed edge between the two objects.
Connect(e, src, dst) == <<e[src], e[dst]>>

Top == ctx[Len(ctx)]

AtTopLevel == status = "running" /\ fn = "" /\ pc <= Len(driver)
InFunction == status = "running" /\ fn # "" /\ fpc <= Len(Body(fn))
Stmt == Body(fn)[fpc]

\* Raise with the exception caught and the script carrying on.
Swallow(e) ==
    /\ status' = status
    /\ error' = e

\* An exception nothing catches ends the script.
Raise(e) ==
    /\ status' = "failed"
    /\ error' = e

----------------------------------------------------------------------------
(* Steps of the driver *)

PrintStatus ==
    /\ AtTopLevel
    /\ driver[pc][1] = "print"
    /\ stdout' = Append(stdout, driver[pc][2])
    /\ pc' = pc + 1
    /\ UNCHANGED <<driver, fn, fpc, env, ctx, clusterStack, closed, nextId,
                   handoffs, files, status, error>>

CallBuild ==
    /\ AtTopLevel
    /\ driver[pc][1] = "call"
    /\ fn' = driver[pc][2]
    /\ fpc' = 1
    /\ env' = NoLocals
    /\ UNCHANGED <<driver, pc, ctx, clusterStack, closed, nextId,
                   handoffs, files, stdout, status, error>>

ReturnFromBuild ==
    /\ status = "running"
    /\ fn # ""
    /\ fpc > Len(Body(fn))
    /\ fn' = ""
    /\ fpc' = 0
    /\ env' = NoLocals
    /\ pc' = pc + 1
    /\ UNCHANGED <<driver, ctx, clusterStack, closed, nextId,
                   handoffs, files, stdout, status, error>>

Exit ==
    /\ status = "running"
    /\ fn = ""
    /\ pc > Len(driver)
    /\ status' = "done"
    /\ UNCHANGED <<driver, pc, fn, fpc, env, ctx, clusterStack, closed, nextId,
                   handoffs, files, stdout, error>>

----------------------------------------------------------------------------
(* Steps of a build function *)

OpenDiagram ==
    /\ InFunction
    /\ Stmt[1] = "diagram"
    /\ ctx' = Append(ctx, NewDiagram(Stmt[2], Stmt[3], Stmt[4]))
    /\ fpc' = fpc + 1
    /\ UNCHANGED <<driver, pc, fn, env, clusterStack, closed, nextId,
                   handoffs, files, stdout, status, error>>

OpenCluster ==
    /\ InFunction
    /\ Stmt[1] = "cluster"
    /\ IF ctx = <<>>
       THEN /\ Raise("EnvironmentError")
            /\ UNCHANGED <<ctx, clusterStack, nextId, fpc>>
       ELSE /\ nextId' = NewId(nextId)
            /\ ctx' = [ctx EXCEPT ![Len(ctx)].clusters =
                          Append(@, [id |-> nextId', label |-> Stmt[2],
                                     parent |-> CurrentCluster(clusterStack)])]
            /\ clusterStack' = Append(clusterStack, nextId')
            /\ fpc' = fpc + 1
            /\ UNCHANGED <<status, error>>
    /\ UNCHANGED <<driver, pc, fn, env, closed, handoffs, files, stdout>>

CloseCluster ==
    /\ InFunction
    /\ Stmt[1] = "end"
    /\ clusterStack # <<>>
    /\ closed' = closed \cup {CurrentCluster(clusterStack)}
    /\ clusterStack' = LeaveCluster(clusterStack)
    /\ fpc' = fpc + 1
    /\ UNCHANGED <<driver, pc, fn, env, ctx, nextId, handoffs, files, stdout,
                   status, error>>

DeclareNode ==
    /\ InFunction
    /\ Stmt[1] = "node"
    /\ IF ctx = <<>>
       THEN /\ Raise("EnvironmentError")
            /\ UNCHANGED <<ctx, env, nextId, fpc>>
       ELSE /\ nextId' = NewId(nextId)
            /\ ctx' = [ctx EXCEPT ![Len(ctx)].nodes =
                          Append(@, [id |-> nextId', var |-> Stmt[2],
                                     category |-> Stmt[3], label |-> Stmt[4],
                                     cluster |-> CurrentCluster(clusterStack)])]
            /\ env' = Bind(env, Stmt[2], nextId')
            /\ fpc' = fpc + 1
            /\ UNCHANGED <<status, error>>
    /\ UNCHANGED <<driver, pc, fn, clusterStack, closed, handoffs, files, stdout>>

ConnectNodes ==
    /\ InFunction
    /\ Stmt[1] = "edge"
    /\ IF Stmt[2] \notin DOMAIN env \/ Stmt[3] \notin DOMAIN env
       THEN /\ Raise("NameError")
            /\ UNCHANGED <<ctx, fpc>>
       ELSE /\ ctx' = [ctx EXCEPT ![Len(ctx)].edges =
                          Append(@, Connect(env, Stmt[2], Stmt[3]))]
            /\ fpc' = fpc + 1
            /\ UNCHANGED <<status, error>>
    /\ UNCHANGED <<driver, pc, fn, env, clusterStack, closed, nextId,
                   handoffs, files, stdout>>

\* Leaving the with Diagram(...) block hands the graph to the renderer, which
\* writes <filename>.png or fails; a failure is not caught anywhere.
CloseDiagram ==
    /\ InFunction
    /\ Stmt[1] = "render"
    /\ ctx # <<>>
    /\ \E ok \in BOOLEAN :
        /\ handoffs' = Append(handoffs, [by |-> fn, graph |-> Top, ok |-> ok])
        /\ ctx' = LeaveDiagram(ctx)
        /\ IF ok
           THEN /\ files' = [files EXCEPT ![Top.filename] = <<Top>>]
                /\ fpc' = fpc + 1
                /\ UNCHANGED <<status, error>>
           ELSE /\ Raise("RenderError")
                /\ UNCHANGED <<files, fpc>>
    /\ UNCHANGED <<driver, pc, fn, env, clusterStack, closed, nextId, stdout>>


----------------------------------------------------------------------------
(* Specifications *)

Start ==
    /\ pc = 1
    /\ fn = ""
    /\ fpc = 0
    /\ env = NoLocals
    /\ ctx = <<>>
    /\ clusterStack = <<>>
    /\ closed = {}
    /\ nextId = 0
    /\ handoffs = <<>>
    /\ files = [f \in OutputFiles |-> <<>>]
    /\ stdout = <<>>
    /\ status = "running"
    /\ error = ""

\* The script run as a program: python generate_architecture_diagram.py
Init ==
    /\ driver = main
    /\ Start

Next ==
    \/ PrintStatus
    \/ CallBuild
    \/ ReturnFromBuild
    \/ Exit
    \/ OpenDiagram
    \/ OpenCluster
    \/ CloseCluster
    \/ DeclareNode
    \/ ConnectNodes
    \/ CloseDiagram

Spec == Init /\ [][Next]_vars

\* The module imported and its build functions called, any of them, in any
\* order, up to MaxCalls times.
CallSequences ==
    UNION { [1..n -> {Call(f) : f \in Functions}] : n \in 1..MaxCalls }

InitCalls ==
    /\ driver \in CallSequences
    /\ Start

NextCalls ==
    \/ CallBuild
    \/ ReturnFromBuild
    \/ Exit
    \/ OpenDiagram
    \/ OpenCluster
    \/ CloseCluster
    \/ DeclareNode
    \/ ConnectNodes
    \/ CloseDiagram

SpecCalls == InitCalls /\ [][NextCalls]_vars

----------------------------------------------------------------------------
(* Graph descriptions *)

\* Every graph the run has built or is building.
Graphs ==
    {ctx[i] : i \in DOMAIN ctx} \cup {handoffs[i].graph : i \in DOMAIN handoffs}

NodeIds(g) == {g.nodes[i].id : i \in DOMAIN g.nodes}
ClusterIds(g) == {g.clusters[i].id : i \in DOMAIN g.clusters}
EdgeSet(g) == {g.edges[i] : i \in DOMAIN g.edges}

Rendered(filename) == files[filename] # <<>>
Image(filename) == files[filename][1]

----------------------------------------------------------------------------
(* C1 *)

\* C1: in every graph, each edge joins two nodes declared in that same graph
\* before the edge was added (no edge statement finds a name undeclared), and
\* no edge has an endpoint among the nodes of the other diagram.
ReferentialIntegrity ==
    /\ error # "NameError"
    /\ \A g \in Graphs : \A e \in EdgeSet(g) :
          e[1] \in NodeIds(g) /\ e[2] \in NodeIds(g)
    /\ \A g \in Graphs : \A h \in Graphs :
          g.filename # h.filename =>
              \A e \in EdgeSet(g) : e[1] \notin NodeIds(h) /\ e[2] \notin NodeIds(h)

\* Both diagrams rendered, each with all its edges.
BothRenderedWithEdges ==
    /\ Rendered("gcp_architecture_diagram")
    /\ Rendered("gcp_simplified_diagram")
    /\ Len(Image("gcp_architecture_diagram").edges) = 48
    /\ Len(Image("gcp_simplified_diagram").edges) = 16

----------------------------------------------------------------------------
(* C4 *)

\* C4: within a graph no two nodes share an identifier (neither the name they
\* are bound to nor the object), and while a diagram is being built every
\* bound name denotes exactly one of its nodes.
UniqueIdentifiers ==
    /\ \A g \in Graphs : \A i \in DOMAIN g.nodes : \A j \in DOMAIN g.nodes :
          i # j => /\ g.nodes[i].id # g.nodes[j].id
                   /\ g.nodes[i].var # g.nodes[j].var
    /\ ctx # <<>> =>
          \A v \in DOMAIN env :
              Cardinality({i \in DOMAIN Top.nodes :
                              Top.nodes[i].id = env[v] /\ Top.nodes[i].var = v}) = 1

\* The comprehensive graph fully declared: both regions hold a node labelled "VPC".
SameLabelTwice ==
    /\ ctx # <<>>
    /\ Len(Top.nodes) = 37
    /\ \E i \in DOMAIN Top.nodes : \E j \in DOMAIN Top.nodes :
          /\ i # j
          /\ Top.nodes[i].label = "VPC"
          /\ Top.nodes[j].label = "VPC"

----------------------------------------------------------------------------
(* C10 *)

RECURSIVE NoCycle(_, _)
\* Strip the nodes without a successor until none is left; a cycle survives.
NoCycle(N, E) ==
    IF N = {} THEN TRUE
    ELSE LET sinks == {n \in N : ~ \E e \in E : e[1] = n /\ e[2] \in N}
         IN  IF sinks = {} THEN FALSE ELSE NoCycle(N \ sinks, E)

Endpoints(E) == {e[1] : e \in E} \cup {e[2] : e \in E}

\* C10: the edges of every graph form a simple directed acyclic graph: no
\* ordered pair is connected twice, no node is connected to itself, and no
\* directed cycle exists.
SimpleAcyclic ==
    \A g \in Graphs :
        /\ \A i \in DOMAIN g.edges : \A j \in DOMAIN g.edges :
              i # j => g.edges[i] # g.edges[j]
        /\ \A e \in EdgeSet(g) : e[1] # e[2]
        /\ NoCycle(Endpoints(EdgeSet(g)), EdgeSet(g))

\* The comprehensive graph rendered with its replication edge between the
\* two SQL nodes.
ReplicationEdgeRendered ==
    /\ Rendered("gcp_architecture_diagram")
    /\ LET g == Image("gcp_architecture_diagram")
       IN  \E e \in EdgeSet(g) :
              \E i \in DOMAIN g.nodes : \E j \in DOMAIN g.nodes :
                 /\ g.nodes[i].var = "sql_primary" /\ g.nodes[i].id = e[1]
                 /\ g.nodes[j].var = "sql_secondary" /\ g.nodes[j].id = e[2]

----------------------------------------------------------------------------
(* Cluster membership *)

ClusterRecords(g) == {g.clusters[i] : i \in DOMAIN g.clusters}
ClustersNamed(g, label) == {c \in ClusterRecords(g) : c.label = label}
SubClusters(g, cid) == {c \in ClusterRecords(g) : c.parent = cid}
NodesIn(g, cid) == {i \in DOMAIN g.nodes : g.nodes[i].cluster = cid}
CategoriesIn(g, cid) == {g.nodes[i].category : i \in NodesIn(g, cid)}

RECURSIVE Path(_, _)
\* Labels of the clusters around cluster cid, outermost first.
Path(g, cid) ==
    IF cid = Root THEN <<>>
    ELSE LET c == CHOOSE x \in ClusterRecords(g) : x.id = cid
         IN  Append(Path(g, c.parent), c.label)

----------------------------------------------------------------------------
(* C2 *)

\* C2: the rendered simplified diagram has exactly 2 external nodes at top
\* level (Users, Internet), one "Global Services" cluster of exactly 4 nodes
\* (DNS, load balancer, IAM, monitoring) and one "Multi-Region Deployment"
\* cluster of exactly 2 sub-clusters with exactly 3 nodes each (compute,
\* database, storage), 6 region-scoped nodes in all.
SimplifiedShape ==
    Rendered("gcp_simplified_diagram") =>
        LET g == Image("gcp_simplified_diagram")
            external == {i \in NodesIn(g, Root) :
                            g.nodes[i].category \in {"Users", "Internet"}}
            global == ClustersNamed(g, "Global Services")
            multi == ClustersNamed(g, "Multi-Region Deployment")
            regions == UNION {SubClusters(g, m.id) : m \in multi}
        IN  /\ Cardinality(external) = 2
            /\ {g.nodes[i].label : i \in external} = {"Users", "Internet"}
            /\ Cardinality(global) = 1
            /\ \A c \in global :
                  /\ c.parent = Root
                  /\ SubClusters(g, c.id) = {}
                  /\ Cardinality(NodesIn(g, c.id)) = 4
                  /\ CategoriesIn(g, c.id) = {"DNS", "LoadBalancing", "Iam", "BigQuery"}
            /\ Cardinality(multi) = 1
            /\ \A m \in multi :
                  /\ m.parent = Root
                  /\ NodesIn(g, m.id) = {}
                  /\ Cardinality(SubClusters(g, m.id)) = 2
            /\ \A r \in regions :
                  /\ SubClusters(g, r.id) = {}
                  /\ Cardinality(NodesIn(g, r.id)) = 3
                  /\ CategoriesIn(g, r.id) = {"GKE", "SQL", "GCS"}
            /\ Cardinality(UNION {NodesIn(g, r.id) : r \in regions}) = 6

\* The simplified diagram rendered with all its nodes.
SimplifiedRendered ==
    /\ Rendered("gcp_simplified_diagram")
    /\ Len(Image("gcp_simplified_diagram").nodes) = 13
    /\ Len(Image("gcp_simplified_diagram").clusters) = 4

----------------------------------------------------------------------------
(* C3 *)

\* The nodes declared inside the top-level cluster labelled region, in order.
RegionNodes(g, region) ==
    SelectSeq(g.nodes, LAMBDA n : /\ Path(g, n.cluster) # <<>>
                                  /\ Path(g, n.cluster)[1] = region)

\* The edges of g between two nodes of X, by position in X.
IntraEdges(g, X) ==
    {p \in (DOMAIN X) \X (DOMAIN X) : <<X[p[1]].id, X[p[2]].id>> \in EdgeSet(g)}

\* C3: in the rendered comprehensive diagram, pairing the nodes of the primary
\* and of the secondary region in declaration order is a bijection that keeps
\* the node category and the nested sub-cluster and maps the intra-region
\* edges of one region exactly onto those of the other.
RegionsSymmetric ==
    Rendered("gcp_architecture_diagram") =>
        LET g == Image("gcp_architecture_diagram")
            P == RegionNodes(g, "Primary Region (us-central1)")
            S == RegionNodes(g, "Secondary Region (us-east1)")
        IN  /\ Len(P) = Len(S)
            /\ {P[i].id : i \in DOMAIN P} \cap {S[i].id : i \in DOMAIN S} = {}
            /\ {P[i].category : i \in DOMAIN P} =
                  {"VPC", "GKE", "Run", "ComputeEngine", "SQL", "Memorystore",
                   "GCS", "Filestore", "FirewallRules"}
            /\ \A i \in DOMAIN P :
                  /\ P[i].category = S[i].category
                  /\ Tail(Path(g, P[i].cluster)) = Tail(Path(g, S[i].cluster))
            /\ IntraEdges(g, P) = IntraEdges(g, S)

\* The comprehensive diagram rendered: 13 nodes and 7 internal edges in the
\* primary region.
RegionsRendered ==
    /\ Rendered("gcp_architecture_diagram")
    /\ LET g == Image("gcp_architecture_diagram")
           P == RegionNodes(g, "Primary Region (us-central1)")
       IN  /\ Len(P) = 13
           /\ Cardinality(IntraEdges(g, P)) = 7

----------------------------------------------------------------------------
(* C5 *)

\* Every cluster hangs under the diagram or under a cluster opened before it,
\* and every node sits in the diagram or in one cluster of its graph.
ClusterTree ==
    \A g \in Graphs :
        /\ \A i \in DOMAIN g.clusters :
              /\ \/ g.clusters[i].parent = Root
                 \/ \E j \in 1..(i - 1) : g.clusters[j].id = g.clusters[i].parent
              /\ \A j \in DOMAIN g.clusters :
                    i # j => g.clusters[i].id # g.clusters[j].id
        /\ \A i \in DOMAIN g.nodes :
              g.nodes[i].cluster = Root \/ g.nodes[i].cluster \in ClusterIds(g)

\* A node just declared sits in the innermost open cluster, never a closed one.
AttachedInnermost ==
    (ctx # <<>> /\ ctx' # <<>>
        /\ Len(ctx'[Len(ctx')].nodes) = Len(ctx[Len(ctx)].nodes) + 1) =>
        LET n == ctx'[Len(ctx')].nodes[Len(ctx'[Len(ctx')].nodes)]
        IN  /\ n.cluster = IF clusterStack = <<>> THEN 0
                           ELSE clusterStack[Len(clusterStack)]
            /\ n.cluster \notin closed

\* C5: the clusters of every graph form a tree rooted at the diagram, every
\* node belongs to the diagram or to exactly one cluster, a new node is
\* attached to the innermost open cluster, and no node is attached to a
\* cluster after its scope closed.
ClustersFormTree == []ClusterTree /\ [][AttachedInnermost]_vars

\* Three cluster scopes open, an earlier one closed, a node in the innermost.
NestedClusterOpen ==
    /\ ctx # <<>>
    /\ Len(clusterStack) = 3
    /\ closed # {}
    /\ NodesIn(Top, clusterStack[3]) # {}

----------------------------------------------------------------------------
(* C6 *)

HandoffsBy(f) == {i \in DOMAIN handoffs : handoffs[i].by = f}
EdgeStatements(f) == {k \in DOMAIN Body(f) : Body(f)[k][1] = "edge"}

\* One context at a time, one hand-off per build, the second build after the
\* first has handed off, a "saved" line only after its image was written.
Sequential ==
    /\ Len(ctx) <= 1
    /\ \A f \in Functions : Cardinality(HandoffsBy(f)) <= 1
    /\ (fn = "create_simplified_architecture_diagram" /\ ctx # <<>>) =>
          HandoffsBy("create_gcp_architecture_diagram") # {}
    /\ (\E k \in DOMAIN stdout :
           stdout[k] = "Comprehensive diagram saved as 'gcp_architecture_diagram.png'")
          => Rendered("gcp_architecture_diagram")
    /\ (\E k \in DOMAIN stdout :
           stdout[k] = "Simplified diagram saved as 'gcp_simplified_diagram.png'")
          => Rendered("gcp_simplified_diagram")
    /\ status = "done" =>
          \A f \in Functions : Cardinality(HandoffsBy(f)) = 1

\* No node is declared once the graph has an edge.
NodesBeforeEdges ==
    (ctx # <<>> /\ ctx[Len(ctx)].edges # <<>> /\ ctx' # <<>>) =>
        ctx'[Len(ctx')].nodes = ctx[Len(ctx)].nodes

\* The hand-off is the last statement of the build, passes the graph with
\* every edge of the build, and closes the context.
HandoffLast ==
    handoffs' # handoffs =>
        /\ fpc = Len(Body(fn))
        /\ ctx' = <<>>
        /\ handoffs' = Append(handoffs, handoffs'[Len(handoffs')])
        /\ handoffs'[Len(handoffs')].graph = ctx[Len(ctx)]
        /\ Len(ctx[Len(ctx)].edges) = Cardinality(EdgeStatements(fn))

\* C6: within a build all nodes are declared before any edge and the graph is
\* handed to the renderer exactly once, after the last edge, as the context
\* closes; the comprehensive build has closed its context before the
\* simplified one opens its own, two contexts are never open together, and a
\* "saved" line is printed only after the corresponding image was rendered.
LinearControlFlow == []Sequential /\ [][NodesBeforeEdges /\ HandoffLast]_vars

\* The script ran to its end: both builds handed off, every line printed.
ScriptDone ==
    /\ status = "done"
    /\ Len(handoffs) = 2
    /\ Len(stdout) = 10

----------------------------------------------------------------------------
(* C7 *)

PrintsBefore(k) == {i \in 1..(k - 1) : driver[i][1] = "print"}

\* A failed render is the last thing the run does; only the lines before the
\* failing call are on stdout; the run ends "done" only with both images.
FailureIsFinal ==
    /\ \A i \in DOMAIN handoffs :
          ~ handoffs[i].ok =>
              /\ status = "failed"
              /\ error = "RenderError"
              /\ i = Len(handoffs)
    /\ status = "failed" =>
          /\ fn # ""
          /\ driver[pc] = Call(fn)
          /\ Len(stdout) = Cardinality(PrintsBefore(pc))
          /\ \A k \in DOMAIN stdout :
                /\ stdout[k] # "Architecture diagrams generated successfully!"
                /\ stdout[k] # "Simplified diagram saved as 'gcp_simplified_diagram.png'"
                /\ fn = "create_gcp_architecture_diagram" =>
                      stdout[k] # "Comprehensive diagram saved as 'gcp_architecture_diagram.png'"
          /\ handoffs # <<>>
          /\ \A f \in DOMAIN files :
                Rendered(f) => f # handoffs[Len(handoffs)].graph.filename
    /\ status = "done" =>
          /\ \A i \in DOMAIN handoffs : handoffs[i].ok
          /\ \A f \in DOMAIN files : Rendered(f)

\* C7: a renderer failure in either build is not caught: the run ends failed
\* at that point, nothing runs afterwards (no later build, no later status
\* line, no "saved" line for the failed build, no "generated successfully"),
\* and the run ends successfully only when both images were written.
FailurePropagates == []FailureIsFinal /\ [][status = "failed" => UNCHANGED vars]_vars

\* The renderer failed in the second build, after the first image was written.
FailedInSecondBuild ==
    /\ status = "failed"
    /\ fn = "create_simplified_architecture_diagram"
    /\ Rendered("gcp_architecture_diagram")
    /\ Len(stdout) = 4

----------------------------------------------------------------------------
(* Structure of a graph description *)

ClusterOrdinal(g, cid) ==
    IF cid = Root THEN 0 ELSE CHOOSE i \in DOMAIN g.clusters : g.clusters[i].id = cid

NodeOrdinal(g, id) == CHOOSE i \in DOMAIN g.nodes : g.nodes[i].id = id

\* The graph with object identities replaced by positions: the nodes
\* (category, label, cluster), the cluster tree and the set of directed edges.
Structure(g) ==
    [nodes |-> [i \in DOMAIN g.nodes |->
                   [category |-> g.nodes[i].category,
                    label |-> g.nodes[i].label,
                    cluster |-> ClusterOrdinal(g, g.nodes[i].cluster)]],
     clusters |-> [i \in DOMAIN g.clusters |->
                   [label |-> g.clusters[i].label,
                    parent |-> ClusterOrdinal(g, g.clusters[i].parent)]],
     edges |-> {<<NodeOrdinal(g, e[1]), NodeOrdinal(g, e[2])>> : e \in EdgeSet(g)}]

----------------------------------------------------------------------------
(* C8 *)

ExpectedFile(f) ==
    IF f = "create_gcp_architecture_diagram" THEN "gcp_architecture_diagram"
    ELSE "gcp_simplified_diagram"

\* A build starts from nothing, uses only objects it created itself, hands
\* off under its own file name, and builds the same graph whether or not the
\* other build ran before it.
NothingShared ==
    /\ (status = "running" /\ fn # "" /\ fpc = 1) =>
          env = NoLocals /\ ctx = <<>> /\ clusterStack = <<>>
    /\ \A i \in DOMAIN handoffs :
          /\ handoffs[i].graph.filename = ExpectedFile(handoffs[i].by)
          /\ \A j \in DOMAIN handoffs :
                i # j =>
                   /\ NodeIds(handoffs[i].graph) \cap NodeIds(handoffs[j].graph) = {}
                   /\ ClusterIds(handoffs[i].graph) \cap ClusterIds(handoffs[j].graph) = {}
    /\ \A i \in DOMAIN handoffs : \A j \in DOMAIN handoffs :
          (/\ i + 1 < j
           /\ handoffs[i].by = handoffs[j].by
           /\ handoffs[i + 1].by # handoffs[i].by) =>
              Structure(handoffs[i].graph) = Structure(handoffs[j].graph)

\* A step of one build leaves the other build's output file as it was.
OtherFileUnchanged ==
    \A f \in DOMAIN files : files'[f] # files[f] => f = ExpectedFile(fn)

----------------------------------------------------------------------------
(* C9 *)

\* C9: every run of a build function hands the renderer a graph of the same
\* structure (same nodes by category and label, same cluster tree and
\* membership, same set of directed edges), however many builds ran before.
IdempotentConstruction ==
    \A i \in DOMAIN handoffs : \A j \in DOMAIN handoffs :
        handoffs[i].by = handoffs[j].by =>
            Structure(handoffs[i].graph) = Structure(handoffs[j].graph)

\* The same build ran twice in a row, from different objects.
SameBuildTwice ==
    /\ Len(handoffs) >= 2
    /\ handoffs[1].by = handoffs[2].by
    /\ handoffs[1].ok /\ handoffs[2].ok
    /\ handoffs[1].graph # handoffs[2].graph

====
